---- MODULE Spec2Model ----
(***************************************************************************)
(* State-machine model of the compas_fea2 entity graph and of the Abaqus   *)
(* job-data serializer.                                                    *)
(*                                                                         *)
(*   _Part        src/compas_fea2/model/parts.py  (set based registry)     *)
(*   PartBase     src/compas_fea2/backends/_base/model/parts.py            *)
(*                (list based registry with integer keys)                  *)
(*   AbaqusPart   src/compas_fea2/backends/abaqus/model/parts.py           *)
(*   InputFile    src/compas_fea2/backends/abaqus/job/input_file.py        *)
(*                                                                         *)
(* Coordinates are integers counted in half steps of the geometric-key     *)
(* precision, so both the rounding of the geometric key and the strict     *)
(* distance test of the radius query can be observed.                      *)
(***************************************************************************)
EXTENDS Integers, Sequences, FiniteSets, TLC

\* ------------------------------------------------------------------ bounds
NumNodes == 3
NumElements == 4
\* The largest search radius a query is called with.
MaxDistance == 2

\* ------------------------------------------------------- program constants
\* Python's None for a key that was never assigned (Node._key = None).
None == -1
\* compas_fea2.GLOBAL_TOLERANCE, in coordinate units.
GLOBAL_TOLERANCE == 2
\* compas_fea2.PRECISION: width of one rounding cell of the geometric key.
PRECISION == 2

\* ------------------------------------------------------------ object pools
\* Node objects the caller can create: they lie on a line, one unit apart.
NODES == 1..NumNodes

X(n) == n - 1

xyz(n) == <<X(n), 0, 0>>

distance_point_point_sqrd(a, b) ==
    (a[1] - b[1]) * (a[1] - b[1]) + (a[2] - b[2]) * (a[2] - b[2])
        + (a[3] - b[3]) * (a[3] - b[3])

\* Node.gkey: every coordinate rounded to the nearest multiple of PRECISION.
RoundCoord(c) == (2 * c + PRECISION) \div (2 * PRECISION)

gkey(n) == <<RoundCoord(xyz(n)[1]), RoundCoord(xyz(n)[2]), RoundCoord(xyz(n)[3])>>

\* Element objects the caller can create, by class:
\*   shell  AbaqusShellElement: three nodes, _eltype S3, no _orientation attribute
\*   beam   AbaqusBeamElement: _eltype B31, _orientation = frame
\*   truss  AbaqusTrussElement: _eltype T3D2, _orientation = None
ELEMENTS == 1..NumElements

\* Values an element's section attribute can hold: two Section objects and
\* None (no section given).
SECTIONS == {"sec1", "sec2", "sec3"}
NoSection == "None"
MATERIALS == {"mat1", "mat2", "mat3"}
\* The release objects the caller can create.
RELEASES == {"rel1"}
\* Group objects the caller can create.  A group is known by its class, its
\* name and its members.
NodesGroup(name, members) == [class |-> "NodesGroup", name |-> name, members |-> members]
ElementsGroup(name, members) == [class |-> "ElementsGroup", name |-> name, members |-> members]
GROUPS == {NodesGroup("ng", {1, 3}), ElementsGroup("eg", {1, 2})}
\* An argument that is no group at all.
NotAGroup == [class |-> "None", name |-> "", members |-> {}]

ElementClass(e) ==
    CASE e = 2 -> "beam"
      [] e = 3 -> "truss"
      [] e > 4 -> "beam"
      [] OTHER -> "shell"

\* element.nodes: the ordered Node references of the element.
ElementNodes(e) ==
    CASE e = 2 -> <<1, 3>>
      [] e = 3 -> <<1, 2>>
      [] e > 4 -> <<2, 3>>
      [] OTHER -> <<1, 2, 3>>

\* element.section: element 4 was created without a section.
ElementSection(e) ==
    CASE e = 3 -> "sec2"
      [] e = 4 -> NoSection
      [] e > 4 -> "sec2"
      [] OTHER -> "sec1"

\* section.material
\* material.name: mat1 and mat3 are two material objects with one name.
Material_name(m) == IF m = "mat2" THEN "concrete" ELSE "steel"

\* The names, as strings a section can give in place of a material object.
MATERIAL_NAMES == {Material_name(m) : m \in MATERIALS}

\* section.material: sec1 and sec2 hold a material object, sec3 holds the
\* name of one.
SectionMaterial(s) ==
    CASE s = "sec1" -> "mat1"
      [] s = "sec3" -> "concrete"
      [] OTHER -> "mat2"

\* AbaqusBeamElement / AbaqusTrussElement / AbaqusShellElement __init__
eltype(e) ==
    CASE ElementClass(e) = "beam" -> "B31"
      [] ElementClass(e) = "truss" -> "T3D2"
      [] OTHER -> "S3"

\* hasattr(element, '_orientation')
HasOrientation(e) == ElementClass(e) \in {"beam", "truss"}

\* element._orientation is None (AbaqusTrussElement.__init__)
OrientationIsNone(e) == ElementClass(e) = "truss"

\* [str(i) for i in element._orientation]: the frame of a beam, component by
\* component as Python prints it.
OrientationStrs(e) ==
    CASE e = 2 -> <<"0.0", "0.0", "-1.0">>
      [] OTHER -> <<"1.0", "0.0", "0.0">>

Range(s) == {s[i] : i \in DOMAIN s}

\* The orders in which the members of a set can be iterated.
Orders(S) == {q \in [1..Cardinality(S) -> S] : Range(q) = S}

\* --------------------------------------------------------------- the state
VARIABLES
    VERBOSE,              \* compas_fea2.VERBOSE
    POINT_OVERLAP,        \* compas_fea2.POINT_OVERLAP
    nodes,                \* _Part._nodes
    gkey_node,            \* _Part._gkey_node
    sections,             \* _Part._sections
    materials,            \* _Part._materials
    elements,             \* _Part._elements
    releases,             \* _Part._releases
    nodesgroups,          \* _Part._nodesgroups
    elementsgroups,       \* _Part._elementsgroups
    node_key,             \* Node._key of every node object
    node_registration,    \* Node._registration
    connected_elements,   \* Node.connected_elements
    element_key,          \* _Element._key
    element_registration, \* _Element._registration
    release_element,      \* _BeamEndRelease._element
    release_location,     \* _BeamEndRelease._location
    other,                \* the collections of a second _Part
    base,                 \* a PartBase and the keys of the objects it holds
    problem,              \* the Problem an InputFile is generated from
    jobdata,              \* InputFile._jobdata
    last                  \* the last call: operation, argument, error, result

vars == <<VERBOSE, POINT_OVERLAP, nodes, gkey_node, sections, materials, elements,
          releases, nodesgroups, elementsgroups, node_key, node_registration,
          connected_elements, element_key, element_registration, release_element,
          release_location, other, base, problem, jobdata, last>>

config == <<VERBOSE, POINT_OVERLAP>>

\* What a call on the _Part leaves alone.
rest == <<config, other, base, problem, jobdata>>

\* The collections and the keys of the _Part.
part == <<nodes, gkey_node, sections, materials, elements, releases, nodesgroups,
          elementsgroups, node_key, node_registration, connected_elements,
          element_key, element_registration, release_element, release_location>>

\* The objects a _Part call can reach, as one record the methods transform.
\* err is the exception in flight ("none" when the call is still running),
\* self the part the call is made on and VERBOSE the value of
\* compas_fea2.VERBOSE the call reads.
Heap ==
    [nodes |-> nodes, gkey_node |-> gkey_node, sections |-> sections,
     materials |-> materials, elements |-> elements, releases |-> releases,
     nodesgroups |-> nodesgroups, elementsgroups |-> elementsgroups,
     node_key |-> node_key, node_registration |-> node_registration,
     connected_elements |-> connected_elements, element_key |-> element_key,
     element_registration |-> element_registration,
     release_element |-> release_element, release_location |-> release_location,
     self |-> "part", VERBOSE |-> VERBOSE, err |-> "none"]

\* The collections of a new part.
OtherPart ==
    [nodes |-> {}, gkey_node |-> <<>>, sections |-> {}, materials |-> {},
     elements |-> {}, releases |-> {}, nodesgroups |-> {}, elementsgroups |-> {}]

\* The objects a call on the second part can reach: its own collections and
\* the same node, element and release objects.
OtherHeap ==
    [Heap EXCEPT !.nodes = other.nodes, !.gkey_node = other.gkey_node,
                 !.sections = other.sections, !.materials = other.materials,
                 !.elements = other.elements, !.releases = other.releases,
                 !.nodesgroups = other.nodesgroups,
                 !.elementsgroups = other.elementsgroups,
                 !.self = "other"]

Commit(h) ==
    /\ nodes' = h.nodes
    /\ gkey_node' = h.gkey_node
    /\ sections' = h.sections
    /\ materials' = h.materials
    /\ elements' = h.elements
    /\ releases' = h.releases
    /\ nodesgroups' = h.nodesgroups
    /\ elementsgroups' = h.elementsgroups
    /\ node_key' = h.node_key
    /\ node_registration' = h.node_registration
    /\ connected_elements' = h.connected_elements
    /\ element_key' = h.element_key
    /\ element_registration' = h.element_registration
    /\ release_element' = h.release_element
    /\ release_location' = h.release_location

\* A call on the second part ends in h: its collections and the attributes
\* of the objects are those of h, the collections of the first part stay.
CommitOther(h) ==
    /\ other' = [nodes |-> h.nodes, gkey_node |-> h.gkey_node,
                 sections |-> h.sections, materials |-> h.materials,
                 elements |-> h.elements, releases |-> h.releases,
                 nodesgroups |-> h.nodesgroups, elementsgroups |-> h.elementsgroups]
    /\ node_key' = h.node_key
    /\ node_registration' = h.node_registration
    /\ connected_elements' = h.connected_elements
    /\ element_key' = h.element_key
    /\ element_registration' = h.element_registration
    /\ release_element' = h.release_element
    /\ release_location' = h.release_location
    /\ UNCHANGED <<nodes, gkey_node, sections, materials, elements, releases,
                   nodesgroups, elementsgroups>>

\* The part is in the state h.
Is(h) ==
    /\ nodes = h.nodes
    /\ gkey_node = h.gkey_node
    /\ sections = h.sections
    /\ materials = h.materials
    /\ elements = h.elements
    /\ releases = h.releases
    /\ nodesgroups = h.nodesgroups
    /\ elementsgroups = h.elementsgroups
    /\ node_key = h.node_key
    /\ node_registration = h.node_registration
    /\ connected_elements = h.connected_elements
    /\ element_key = h.element_key
    /\ element_registration = h.element_registration
    /\ release_element = h.release_element
    /\ release_location = h.release_location

Raise(h, e) == [h EXCEPT !.err = e]

Call(op, arg, err, ret) == [op |-> op, arg |-> arg, err |-> err, ret |-> ret]

\* ------------------------------------------------------------ _Part: nodes
contains_node(h, node) == node \in h.nodes

\* The search keeping the nodes at the distance itself too.
find_nodes_around_point_inclusive(h, point, distance) ==
    {n \in h.nodes : distance_point_point_sqrd(xyz(n), point) <= distance * distance}

\* find_nodes_around_point(point, distance) without plane, report or single:
\* the registered nodes strictly closer than distance.  The code returns them
\* as a list in the iteration order of the node set.
find_nodes_around_point(h, point, distance) ==
    {n \in h.nodes : distance_point_point_sqrd(xyz(n), point) < distance * distance}

\* add_node without the search for a coincident node.
add_node_skips_verbose_only(h, node) == h.VERBOSE

\* Does add_node return before it registers the node?
add_node_skips(h, node) ==
    \/ h.VERBOSE
    \/ /\ ~POINT_OVERLAP
       /\ find_nodes_around_point(h, xyz(node), GLOBAL_TOLERANCE) # {}

\* The values add_node can return: existing_node[0] is whichever coincident
\* node the set iteration yields first.
add_node_returns(h, node) ==
    IF h.VERBOSE THEN {node}
    ELSE IF ~POINT_OVERLAP /\ find_nodes_around_point(h, xyz(node), GLOBAL_TOLERANCE) # {}
         THEN find_nodes_around_point(h, xyz(node), GLOBAL_TOLERANCE)
         ELSE {node}

\* The registration add_node performs when it does not return early.  The
\* key it writes when the part has a model is the key of the part
\* (self._key), not of the node.
RegisterNode(h, node) ==
    [h EXCEPT !.nodes = @ \cup {node},
              !.gkey_node = [k \in DOMAIN @ \cup {gkey(node)} |->
                                IF k = gkey(node) THEN node ELSE @[k]],
              !.node_registration[node] = h.self]

Part_add_node(h, node) ==
    IF h.err # "none" \/ add_node_skips(h, node) THEN h ELSE RegisterNode(h, node)

RECURSIVE Part_add_nodes(_, _)
Part_add_nodes(h, ns) ==
    IF ns = <<>> THEN h ELSE Part_add_nodes(Part_add_node(h, Head(ns)), Tail(ns))

\* remove_node: the node leaves the set first, then its geometric key is
\* popped from the index; pop raises KeyError when the key is not there.
Part_remove_node(h, node) ==
    IF h.err # "none" \/ ~contains_node(h, node) THEN h
    ELSE LET h1 == [h EXCEPT !.nodes = @ \ {node}]
         IN IF gkey(node) \notin DOMAIN h1.gkey_node THEN Raise(h1, "KeyError")
            ELSE [h1 EXCEPT !.gkey_node = [k \in DOMAIN @ \ {gkey(node)} |-> @[k]],
                            !.node_registration[node] = "None"]

\* ---------------------------------------------------------- _Part: queries
\* A query gives the set of the outcomes it can have, each the heap after the
\* call and what is returned; a list is returned in the iteration order of a
\* set, which the caller does not choose.
Result(h, ret) == [heap |-> h, ret |-> ret]

Abs(x) == IF x < 0 THEN 0 - x ELSE x

\* math.sqrt of a squared distance; the points of the pool lie on one line,
\* so the squared distances are perfect squares.
sqrt(d2) == CHOOSE r \in 0..d2 : r * r = d2

\* The distance find_nodes_around_point reports for a node.
Distance(n, point) == sqrt(distance_point_point_sqrd(xyz(n), point))

\* find_node_by_key: the first node met whose key is the key given, or None.
Part_find_node_by_key(h, key) ==
    IF \A n \in h.nodes : h.node_key[n] # key THEN {Result(h, None)}
    ELSE {Result(h, n) : n \in {m \in h.nodes : h.node_key[m] = key}}

\* is_point_on_plane for a plane normal to the line of the nodes, given by
\* the coordinate where it cuts the line.
is_point_on_plane(point, plane, tolerance) == Abs(point[1] - plane) <= tolerance

\* The nodes find_nodes_on_plane filters from the nodes of the part.
nodes_on_plane(h, plane, tolerance) ==
    {n \in h.nodes : is_point_on_plane(xyz(n), plane, tolerance)}

Part_find_nodes_on_plane(h, plane, tolerance) ==
    {Result(h, q) : q \in Orders(nodes_on_plane(h, plane, tolerance))}

\* find_nodes_around_point(point, distance, plane, report, single): the nodes
\* (of the plane, if one is given, with the default tolerance 1.0) strictly
\* closer than distance; a dictionary of the distances with report, else the
\* list, or with single its first node; [] or None when there is none.
Part_find_nodes_around_point(h, point, distance, plane, report, single) ==
    LET searched == IF plane # None THEN nodes_on_plane(h, plane, 1) ELSE h.nodes
        near == find_nodes_around_point([h EXCEPT !.nodes = searched], point, distance)
    IN IF report THEN {Result(h, [n \in near |-> Distance(n, point)])}
       ELSE IF near = {} THEN {Result(h, IF single THEN None ELSE <<>>)}
       ELSE {Result(h, IF single THEN q[1] ELSE q) : q \in Orders(near)}

\* find_nodes_around_node removing the node from the nodes of the part.
Part_find_nodes_around_node_removing(h, node, distance, plane, report, single) ==
    {Result([r.heap EXCEPT !.nodes = @ \ {node}], r.ret) :
        r \in Part_find_nodes_around_point(h, xyz(node), distance, plane, report, single)}

\* find_nodes_around_node: the search around the position of the node; from
\* a result that is not empty and iterable the node is deleted with
\* del nodes[node], which a dictionary takes and a list refuses (TypeError).
Part_find_nodes_around_node(h, node, distance, plane, report, single) ==
    {IF report
     THEN Result(h, [n \in (DOMAIN r.ret) \ {node} |-> r.ret[n]])
     ELSE IF single THEN r
     ELSE IF \E i \in DOMAIN r.ret : r.ret[i] = node
          THEN Result(Raise(h, "TypeError"), None)
          ELSE r :
        r \in Part_find_nodes_around_point(h, xyz(node), distance, plane, report, single)}

\* KDTree.query(point, k) over the points of the nodes: k different nodes in
\* the order of their distance, none of the others being closer.
KDTree_query(S, point, k) ==
    {q \in [1..k -> S] :
        /\ \A i \in 1..k, j \in 1..k : i < j =>
               /\ q[i] # q[j]
               /\ distance_point_point_sqrd(xyz(q[i]), point)
                      <= distance_point_point_sqrd(xyz(q[j]), point)
        /\ \A n \in S \ Range(q) : \A i \in 1..k :
               distance_point_point_sqrd(xyz(q[i]), point)
                   <= distance_point_point_sqrd(xyz(n), point)}

\* nodes_count: len(self.nodes) - 1.
Part_nodes_count(h) == Cardinality(h.nodes) - 1

\* elements_count: the number of elements minus one.
Part_elements_count(h) == Cardinality(h.elements) - 1

\* find_closest_nodes_to_point: ValueError unless 0 < number_of_nodes <=
\* len(self.nodes); the nodes the tree gives, as a list or, with report, as
\* a dictionary of their distances.
Part_find_closest_nodes_to_point(h, point, number_of_nodes, report) ==
    IF number_of_nodes <= 0 \/ number_of_nodes > Cardinality(h.nodes)
    THEN {Result(Raise(h, "ValueError"), None)}
    ELSE {Result(h, IF report THEN [n \in Range(q) |-> Distance(n, point)] ELSE q) :
             q \in KDTree_query(h.nodes, point, number_of_nodes)}

\* find_closest_nodes_to_node: the search from the position of the node.
Part_find_closest_nodes_to_node(h, node, number_of_nodes, report) ==
    Part_find_closest_nodes_to_point(h, xyz(node), number_of_nodes, report)

\* ------------------------------------------- _Part: materials and sections
\* add_material: TypeError unless the argument is a material.
Part_add_material(h, material) ==
    IF h.err # "none" THEN h
    ELSE IF material \notin MATERIALS THEN Raise(h, "TypeError")
    ELSE [h EXCEPT !.materials = @ \cup {material}]

\* add_section keeping the section and leaving its material alone.
Part_add_section_without_material(h, section) ==
    IF h.err # "none" THEN h
    ELSE IF section \notin SECTIONS THEN Raise(h, "TypeError")
    ELSE [h EXCEPT !.sections = @ \cup {section}]

\* add_section: TypeError unless the argument is a section; the material of
\* the section is added first.
Part_add_section(h, section) ==
    IF h.err # "none" THEN h
    ELSE IF section \notin SECTIONS THEN Raise(h, "TypeError")
    ELSE LET h1 == Part_add_material(h, SectionMaterial(section))
         IN IF h1.err # "none" THEN h1
            ELSE [h1 EXCEPT !.sections = @ \cup {section}]

\* --------------------------------------------------------- _Part: elements
contains_element(h, element) == element \in h.elements

\* for node in element.nodes: node.connected_elements.add(element)
Connect(h, element) ==
    [h EXCEPT !.connected_elements =
        [n \in NODES |-> IF n \in Range(ElementNodes(element))
                         THEN @[n] \cup {element} ELSE @[n]]]

Part_add_element(h, element, checks) ==
    IF h.err # "none" THEN h
    ELSE IF checks /\ contains_element(h, element) THEN h
    ELSE LET h1 == Connect(Part_add_nodes(h, ElementNodes(element)), element)
             h2 == Part_add_section(h1, ElementSection(element))
         IN IF h2.err # "none" THEN h2
            ELSE [h2 EXCEPT !.elements = @ \cup {element},
                            !.element_registration[element] = h.self]

\* add_elements: add_element with checks on, element by element.
RECURSIVE Part_add_elements(_, _)
Part_add_elements(h, es) ==
    IF es = <<>> THEN h
    ELSE Part_add_elements(Part_add_element(h, Head(es), TRUE), Tail(es))

\* hasattr(element, "rigid") and element.rigid: the shells are made rigid
\* (ShellElement(..., rigid=True)), the beams are not, the truss has no such
\* attribute.
HasRigid(e) == ElementClass(e) # "truss"

rigid(e) == ElementClass(e) = "shell"

\* RigidPart.add_element refusing only the elements without the attribute.
RigidPart_add_element_any_rigid_attribute(h, element) ==
    IF h.err # "none" THEN h
    ELSE IF ~HasRigid(element) THEN Raise(h, "TypeError")
    ELSE Part_add_element(h, element, TRUE)

\* RigidPart.add_element: TypeError for an element without the attribute
\* rigid or with rigid false, else _Part.add_element with its checks.
RigidPart_add_element(h, element) ==
    IF h.err # "none" THEN h
    ELSE IF ~HasRigid(element) THEN Raise(h, "TypeError")
    ELSE IF ~rigid(element) THEN Raise(h, "TypeError")
    ELSE Part_add_element(h, element, TRUE)

\* add_elements of a RigidPart: self.add_element is that of the RigidPart.
RECURSIVE RigidPart_add_elements(_, _)
RigidPart_add_elements(h, es) ==
    IF es = <<>> THEN h
    ELSE RigidPart_add_elements(RigidPart_add_element(h, Head(es)), Tail(es))

\* for node in element.nodes: node.connected_elements.remove(element);
\* set.remove raises KeyError when the element is not in the set.
RECURSIVE Disconnect(_, _, _)
Disconnect(h, element, ns) ==
    IF ns = <<>> \/ h.err # "none" THEN h
    ELSE IF element \notin h.connected_elements[Head(ns)] THEN Raise(h, "KeyError")
    ELSE Disconnect([h EXCEPT !.connected_elements[Head(ns)] = @ \ {element}],
                    element, Tail(ns))

Part_remove_element(h, element) ==
    IF h.err # "none" \/ ~contains_element(h, element) THEN h
    ELSE Disconnect([h EXCEPT !.elements = @ \ {element},
                              !.element_registration[element] = "None"],
                    element, ElementNodes(element))

\* ----------------------------------------------------------- _Part: groups

contains_group(h, group) ==
    IF group.class = "NodesGroup" THEN group \in h.nodesgroups
    ELSE group \in h.elementsgroups

\* add_group refusing a group the part already contains.
Part_add_group_rejecting_duplicates(h, group, order) ==
    IF h.err # "none" THEN h
    ELSE IF group.class = "None" THEN Raise(h, "TypeError")
    ELSE LET h1 == IF group.class = "NodesGroup" THEN Part_add_nodes(h, order)
                   ELSE Part_add_elements(h, order)
         IN IF h1.err # "none" THEN h1
            ELSE IF contains_group(h1, group) THEN Raise(h1, "ValueError")
            ELSE IF group.class = "NodesGroup"
                 THEN [h1 EXCEPT !.nodesgroups = @ \cup {group}]
                 ELSE [h1 EXCEPT !.elementsgroups = @ \cup {group}]

\* add_group with the members visited in the order given.
Part_add_group(h, group, order) ==
    IF h.err # "none" THEN h
    ELSE IF group.class = "None" THEN Raise(h, "TypeError")
    ELSE LET h1 == IF group.class = "NodesGroup" THEN Part_add_nodes(h, order)
                   ELSE Part_add_elements(h, order)
         IN IF h1.err # "none" \/ contains_group(h1, group) THEN h1
            ELSE IF group.class = "NodesGroup"
                 THEN [h1 EXCEPT !.nodesgroups = @ \cup {group}]
                 ELSE [h1 EXCEPT !.elementsgroups = @ \cup {group}]

\* add_group of a RigidPart: the elements of a group of elements go through
\* the add_element of the RigidPart.
RigidPart_add_group(h, group, order) ==
    IF h.err # "none" THEN h
    ELSE IF group.class = "None" THEN Raise(h, "TypeError")
    ELSE LET h1 == IF group.class = "NodesGroup" THEN Part_add_nodes(h, order)
                   ELSE RigidPart_add_elements(h, order)
         IN IF h1.err # "none" \/ contains_group(h1, group) THEN h1
            ELSE IF group.class = "NodesGroup"
                 THEN [h1 EXCEPT !.nodesgroups = @ \cup {group}]
                 ELSE [h1 EXCEPT !.elementsgroups = @ \cup {group}]

\* --------------------------------------------------------- _Part: releases
\* DeformablePart.add_beam_release: the setters of the release validate the
\* element (a BeamElement) and the location ('start' or 'end') in turn.
Part_add_beam_release(h, element, location, release) ==
    IF h.err # "none" THEN h
    ELSE IF release \notin RELEASES THEN Raise(h, "TypeError")
    ELSE IF ElementClass(element) # "beam" THEN Raise(h, "TypeError")
    ELSE LET h1 == [h EXCEPT !.release_element[release] = element]
         IN IF location \notin {"start", "end"} THEN Raise(h1, "TypeError")
            ELSE [h1 EXCEPT !.release_location[release] = location,
                            !.releases = @ \cup {release}]

\* ------------------------------------------------------------- _Part: keys
\* assign_keys(start): enumerate() over the node set and over the element set
\* numbers the members from start in the iteration order of the sets.  The
\* sections and the materials are numbered the same way; their keys are not
\* part of the state.
Numberings(S, start) ==
    {f \in [S -> start..(start + Cardinality(S) - 1)] :
        \A a, b \in S : a # b => f[a] # f[b]}

Part_assign_keys(h, nk, ek) ==
    [h EXCEPT !.node_key = [n \in NODES |-> IF n \in h.nodes THEN nk[n] ELSE @[n]],
              !.element_key = [e \in ELEMENTS |-> IF e \in h.elements THEN ek[e] ELSE @[e]]]

\* --------------------------------------------------- AbaqusPart: grouping
\* The orientation key of an element: '_'.join(str(i) for i in x._orientation)
\* if the element has the attribute, None otherwise.  The joined string is
\* kept as the sequence of its parts; None is the empty sequence.
NoOrientation == <<>>

OrientationKey(e) == IF HasOrientation(e) THEN OrientationStrs(e) ELSE NoOrientation

\* The exceptions _group_elements can end with (none: it returns).
\*   TypeError  the join iterates an _orientation that is None
\*   KeyError   an element without the attribute is put in the None bucket
\*              before the bucket exists (the set of orientations is visited
\*              in no fixed order)
group_elements_errors(h) ==
    IF \E e \in h.elements : HasOrientation(e) /\ OrientationIsNone(e)
    THEN {"TypeError"}
    ELSE {"none"} \cup
         (IF \E a, b \in h.elements :
                 /\ eltype(a) = eltype(b) /\ ElementSection(a) = ElementSection(b)
                 /\ ~HasOrientation(a) /\ HasOrientation(b)
          THEN {"KeyError"} ELSE {})

\* _group_elements: {eltype: {section: {orientation: elements}}}, as a
\* function of the (eltype, section, orientation) triples present.
group_elements(h) ==
    LET eltypes == {eltype(x) : x \in h.elements}
        keys == UNION {
                    LET typed == {el \in h.elements : eltype(el) = t}
                    IN UNION {
                           LET sub == {el \in typed : ElementSection(el) = sec}
                           IN {<<t, sec, OrientationKey(x)>> : x \in sub}
                       : sec \in {ElementSection(x) : x \in typed}}
                    : t \in eltypes}
    IN [k \in keys |->
           {el \in h.elements :
               /\ eltype(el) = k[1]
               /\ ElementSection(el) = k[2]
               /\ IF HasOrientation(el) THEN OrientationStrs(el) = k[3]
                  ELSE k[3] = NoOrientation}]

\* ------------------------------------------------ AbaqusPart: job data
\* str.replace(".", "") on one part of the orientation key
RemoveDots(c) ==
    CASE c = "0.0" -> "00"
      [] c = "1.0" -> "10"
      [] c = "-1.0" -> "-10"
      [] OTHER -> c

\* The name of the auxiliary element set of a bucket.
AuxName(k) ==
    IF k[3] # NoOrientation
    THEN <<"aux", k[1], k[2]>> \o [i \in DOMAIN k[3] |-> RemoveDots(k[3][i])]
    ELSE <<"aux", k[1], k[2]>>

\* The element line with the node keys written as they are stored.
ElementLine_unshifted_nodes(h, e) ==
    [element |-> h.element_key[e] + 1,
     nodes |-> [i \in DOMAIN ElementNodes(e) |-> h.node_key[ElementNodes(e)[i]]]]

\* elements._generate_jobdata: the element key + 1, then the key + 1 of each
\* of its nodes, in the order of element.nodes.
ElementLine(h, e) ==
    [element |-> h.element_key[e] + 1,
     nodes |-> [i \in DOMAIN ElementNodes(e) |-> h.node_key[ElementNodes(e)[i]] + 1]]

\* key + 1 raises TypeError on a key that is None.
ElementLineRaises(h, e) ==
    \/ h.element_key[e] = None
    \/ \E n \in Range(ElementNodes(e)) : h.node_key[n] = None

\* The line of a node: its key + 1 and its coordinates.
NodeLine(h, n) == [node |-> h.node_key[n] + 1, xyz |-> xyz(n)]

NodeLineRaises(h, n) == h.node_key[n] = None

\* self.groups: the node groups and the element groups of the part.
Groups(h) == h.nodesgroups \cup h.elementsgroups

\* The loop over the buckets: the header and the lines of the bucket, then
\* the auxiliary set, added to the part with add_group.  The lines of one
\* block are kept as a set: their order is the iteration order of the bucket,
\* and so are the blocks: their order is the order the buckets are visited in.
RECURSIVE WriteBuckets(_, _, _, _)
WriteBuckets(h, grouped, order, blocks) ==
    IF order = <<>> \/ h.err # "none" THEN [heap |-> h, blocks |-> blocks]
    ELSE LET k == Head(order)
             els == grouped[k]
             aux_elset == ElementsGroup(AuxName(k), els)
         IN IF \E e \in els : ElementLineRaises(h, e)
            THEN [heap |-> Raise(h, "TypeError"), blocks |-> blocks]
            ELSE WriteBuckets(
                     Part_add_group(h, aux_elset, CHOOSE q \in Orders(els) : TRUE),
                     grouped, Tail(order),
                     blocks \cup
                         {[eltype |-> k[1], section |-> k[2], orientation |-> k[3],
                           lines |-> {[of |-> e, line |-> ElementLine(h, e)] : e \in els},
                           elset |-> aux_elset.name]})

\* _generate_jobdata writing the groups the part had before the buckets were
\* visited.
AbaqusPart_generate_jobdata_groups_before(h, group_error, bucket_order) ==
    IF \E n \in h.nodes : NodeLineRaises(h, n)
    THEN [heap |-> Raise(h, "TypeError"), text |-> <<>>]
    ELSE IF group_error # "none"
    THEN [heap |-> Raise(h, group_error), text |-> <<>>]
    ELSE LET w == WriteBuckets(h, group_elements(h), bucket_order, {})
         IN [heap |-> w.heap,
             text |-> IF w.heap.err # "none" THEN <<>>
                      ELSE [node_lines |-> {[of |-> n, line |-> NodeLine(h, n)] :
                                               n \in h.nodes},
                            blocks |-> w.blocks,
                            groups |-> Groups(h),
                            releases |-> w.heap.releases]]

\* AbaqusPart._generate_jobdata with the grouping ending with group_error and
\* the buckets visited in bucket_order.  The result is the heap after the
\* call and the text, block by block; the node lines are kept as a set, their
\* order being the iteration order of the node set.
AbaqusPart_generate_jobdata(h, group_error, bucket_order) ==
    IF \E n \in h.nodes : NodeLineRaises(h, n)
    THEN [heap |-> Raise(h, "TypeError"), text |-> <<>>]
    ELSE IF group_error # "none"
    THEN [heap |-> Raise(h, group_error), text |-> <<>>]
    ELSE LET w == WriteBuckets(h, group_elements(h), bucket_order, {})
         IN [heap |-> w.heap,
             text |-> IF w.heap.err # "none" THEN <<>>
                      ELSE [node_lines |-> {[of |-> n, line |-> NodeLine(h, n)] :
                                               n \in h.nodes},
                            blocks |-> w.blocks,
                            groups |-> Groups(w.heap),
                            releases |-> w.heap.releases]]

\* ---------------------------------------------------------------- PartBase
\* PartBase.__init__: the lists and the dictionaries of a new part, and the
\* keys of the node and element objects (no key before an object is added).
PartBase ==
    [nodes |-> <<>>, nodes_gkeys |-> <<>>, elements |-> <<>>,
     elements_by_type |-> <<>>, elements_by_section |-> <<>>,
     orientations_by_section |-> <<>>,
     materials |-> {}, sections |-> {},
     node_key |-> [n \in NODES |-> None],
     element_key |-> [e \in ELEMENTS |-> None],
     err |-> "none"]

\* element.connectivity: the node keys an element of the list based
\* generation refers to.
connectivity(e) ==
    CASE e = 2 -> <<0, 2>>
      [] e = 3 -> <<0, 1>>
      [] e > 4 -> <<1, 2>>
      [] OTHER -> <<0, 1, 2>>

\* The indices at which the geometric key of the node is already stored.
check_node_in_part(b, node) ==
    {i \in 1..Len(b.nodes_gkeys) : b.nodes_gkeys[i] = gkey(node)}

PartBase_add_node(b, node, check) ==
    IF check /\ check_node_in_part(b, node) # {} THEN b
    ELSE [b EXCEPT !.node_key[node] = Len(b.nodes),
                   !.nodes = Append(@, node),
                   !.nodes_gkeys = Append(@, gkey(node))]

\* del list[i] for a zero-based index i
Del(list, i) == [j \in 1..(Len(list) - 1) |-> IF j <= i THEN list[j] ELSE list[j + 1]]

PartBase_reorder_nodes(b) ==
    [b EXCEPT !.node_key = [n \in NODES |->
         IF n \in Range(b.nodes)
         THEN (CHOOSE i \in 1..Len(b.nodes) :
                   b.nodes[i] = n /\ \A j \in (i + 1)..Len(b.nodes) : b.nodes[j] # n) - 1
         ELSE @[n]]]

\* remove_node(node_key): del self.nodes[node_key] raises IndexError on a key
\* out of range; the next statement reads self.nodes_gkeys, an attribute the
\* class does not have (it has _nodes_gkeys), so the call ends there with
\* AttributeError and _reorder_nodes is not reached.
PartBase_remove_node(b, key) ==
    IF key >= Len(b.nodes) THEN Raise(b, "IndexError")
    ELSE Raise([b EXCEPT !.nodes = Del(@, key)], "AttributeError")

\* The keys of the elements already in the part with the same connectivity.
check_element_in_part(b, element) ==
    {b.element_key[b.elements[i]] : i \in {j \in 1..Len(b.elements) :
         connectivity(b.elements[j]) = connectivity(element)}}

\* dict[k].append(v), the list being created when k is new
AppendAt(d, k, v) ==
    [x \in DOMAIN d \cup {k} |->
        IF x \in DOMAIN d THEN (IF x = k THEN Append(d[x], v) ELSE d[x]) ELSE <<v>>]

\* dict[k].append(v) unless v is already in the list
AppendNewAt(d, k, v) ==
    [x \in DOMAIN d \cup {k} |->
        IF x \in DOMAIN d
        THEN (IF x = k /\ v \notin Range(d[x]) THEN Append(d[x], v) ELSE d[x])
        ELSE <<v>>]

\* add_element: the key is set first, then every index of the connectivity
\* is looked up among the node keys, then the element is appended and
\* indexed by type, by section and by orientation (no pool element names an
\* element set).
PartBase_add_element(b, element, check) ==
    IF check /\ check_element_in_part(b, element) # {} THEN b
    ELSE LET b1 == [b EXCEPT !.element_key[element] = Len(b.elements)]
             key == Len(b.elements)
         IN IF \E c \in Range(connectivity(element)) :
                   c \notin {b1.node_key[b1.nodes[i]] : i \in 1..Len(b1.nodes)}
            THEN Raise(b1, "ValueError")
            ELSE [b1 EXCEPT
                     !.elements = Append(@, element),
                     !.elements_by_type = AppendAt(@, eltype(element), key),
                     !.elements_by_section = AppendAt(@, ElementSection(element), key),
                     !.orientations_by_section =
                         AppendNewAt(@, ElementSection(element),
                                     IF HasOrientation(element) /\ ~OrientationIsNone(element)
                                     THEN OrientationStrs(element) ELSE NoOrientation)]

\* ------------------------------------------------------- AbaqusPointLoad
\* PartBase.add_material: the dictionary of the materials by name, kept as
\* the set of its (name, material) items; a name already there is skipped.
PartBase_add_material(b, material) ==
    IF \E i \in b.materials : i[1] = Material_name(material) THEN b
    ELSE [b EXCEPT !.materials = @ \cup {<<Material_name(material), material>>}]

\* The key add_section looks up in the materials: the material itself when
\* the section holds a string, the name of the material object otherwise.
PartBase_material_key(section) ==
    IF SectionMaterial(section) \in MATERIAL_NAMES THEN SectionMaterial(section)
    ELSE Material_name(SectionMaterial(section))

\* PartBase.add_section registering a section whatever its material.
PartBase_add_section_unchecked(b, section) ==
    IF section \in b.sections THEN b
    ELSE [b EXCEPT !.sections = @ \cup {section}]

\* PartBase.add_section: a section already there (by name) is skipped;
\* ValueError when the material is not in the part; else the section is kept
\* under its name.
PartBase_add_section(b, section) ==
    IF section \in b.sections THEN b
    ELSE IF \A i \in b.materials : i[1] # PartBase_material_key(section)
    THEN [b EXCEPT !.err = "ValueError"]
    ELSE [b EXCEPT !.sections = @ \cup {section}]

\* The number of nodes of one line of the node set of a point load.
ChunkSize == 15

\* [nodes[x:x+15] for x in range(0, len(nodes), 15)]
Chunks(list) ==
    [c \in 1..((Len(list) + ChunkSize - 1) \div ChunkSize) |->
        SubSeq(list, (c - 1) * ChunkSize + 1,
               IF c * ChunkSize < Len(list) THEN c * ChunkSize ELSE Len(list))]

\* AbaqusPointLoad._generate_jobdata: the lines of the node set, every node
\* written as its key + 1 (TypeError on a key that is None).
AbaqusPointLoad_generate_jobdata(h, ns) ==
    IF \E n \in Range(ns) : h.node_key[n] = None
    THEN [err |-> "TypeError", text |-> <<>>]
    ELSE [err |-> "none",
          text |-> [c \in DOMAIN Chunks(ns) |->
                       [i \in DOMAIN Chunks(ns)[c] |-> h.node_key[Chunks(ns)[c][i]] + 1]]]

\* --------------------------------------------------------------- InputFile
\* The objects a Problem can refer to.  The part "frame" holds one beam, the
\* part "bracing" one truss; both had their keys assigned, so that
\* part._generate_jobdata() raises only where the grouping does.
PARTS == {"frame", "bracing"}
BCS == {"fix", "pin"}
STEPS == {"static", "modal"}
MaxSteps == 2

\* _Part.__init__
NewPart ==
    [nodes |-> {}, gkey_node |-> <<>>, sections |-> {}, materials |-> {},
     elements |-> {}, releases |-> {}, nodesgroups |-> {}, elementsgroups |-> {},
     node_key |-> [n \in NODES |-> None],
     node_registration |-> [n \in NODES |-> "None"],
     connected_elements |-> [n \in NODES |-> {}],
     element_key |-> [e \in ELEMENTS |-> None],
     element_registration |-> [e \in ELEMENTS |-> "None"],
     release_element |-> [r \in RELEASES |-> None],
     release_location |-> [r \in RELEASES |-> "None"],
     err |-> "none"]

PartElements(p) == IF p = "frame" THEN {2} ELSE {3}

\* All lists without repetition over S, and all lists over S up to a length.
Lists(S) == UNION {Orders(T) : T \in SUBSET S}

ListsUpTo(S, n) == UNION {[1..k -> S] : k \in 0..n}

\* A problem: model.parts, model.materials and bcs are dictionaries, visited
\* in insertion order; steps is a list.
Problems ==
    [parts : Lists(PARTS), materials : Lists(MATERIALS), bcs : Lists(BCS),
     steps : ListsUpTo(STEPS, MaxSteps)]

NoProblem == [parts |-> <<>>, materials |-> <<>>, bcs |-> <<>>, steps |-> <<>>]

\* No input file was generated yet.
NoText == <<>>

\* The text is a sequence of section headers of the template and of the
\* fragments the objects of the problem contribute.
Header(name) == [kind |-> "header", name |-> name]

Fragment(kind, name) == [kind |-> kind, name |-> name]

\* part._generate_jobdata() of every part in turn; the first part that
\* raises ends the generation.
generate_part_section(p) ==
    LET error(x) == CHOOSE e \in group_elements_errors([elements |-> PartElements(x)]) : TRUE
        failed == {i \in DOMAIN p.parts : error(p.parts[i]) # "none"}
    IN IF failed # {}
       THEN [err |-> error(p.parts[CHOOSE i \in failed : \A j \in failed : i <= j]),
             text |-> <<>>]
       ELSE [err |-> "none", text |-> [i \in DOMAIN p.parts |-> Fragment("part", p.parts[i])]]

\* problem.model._generate_jobdata()
generate_assembly_section(p) == <<Fragment("assembly", "model")>>

generate_material_section(p) ==
    [i \in DOMAIN p.materials |-> Fragment("material", p.materials[i])]

generate_int_props_section(p) == <<>>

generate_interactions_section(p) == <<>>

generate_bcs_section(p) == [i \in DOMAIN p.bcs |-> Fragment("bc", p.bcs[i])]

\* A ModalStep is rendered without the problem, any other step with it.
generate_steps_section(p) == [i \in DOMAIN p.steps |-> Fragment("step", p.steps[i])]

\* The template with the materials written ahead of the assembly.
InputFile_generate_jobdata_materials_first(p) ==
    LET parts_section == generate_part_section(p)
    IN IF parts_section.err # "none" THEN parts_section
       ELSE [err |-> "none",
             text |-> <<Header("Heading"), Header("PARTS")>> \o parts_section.text
                      \o <<Header("MATERIALS")>> \o generate_material_section(p)
                      \o <<Header("ASSEMBLY")>> \o generate_assembly_section(p)
                      \o <<Header("INTERACTION PROPERTIES")>> \o generate_int_props_section(p)
                      \o <<Header("INTERACTIONS")>> \o generate_interactions_section(p)
                      \o <<Header("BOUNDARY")>> \o generate_bcs_section(p)
                      \o <<Header("STEPS")>> \o generate_steps_section(p)]

\* InputFile._generate_jobdata: the template, filled with the sections.
InputFile_generate_jobdata(p) ==
    LET parts_section == generate_part_section(p)
    IN IF parts_section.err # "none" THEN parts_section
       ELSE [err |-> "none",
             text |-> <<Header("Heading"), Header("PARTS")>> \o parts_section.text
                      \o <<Header("ASSEMBLY")>> \o generate_assembly_section(p)
                      \o <<Header("MATERIALS")>> \o generate_material_section(p)
                      \o <<Header("INTERACTION PROPERTIES")>> \o generate_int_props_section(p)
                      \o <<Header("INTERACTIONS")>> \o generate_interactions_section(p)
                      \o <<Header("BOUNDARY")>> \o generate_bcs_section(p)
                      \o <<Header("STEPS")>> \o generate_steps_section(p)]

\* ------------------------------------------------------------ _Part: calls
add_node ==
    \E node \in NODES :
        \E h \in {Part_add_node(Heap, node)} :
           /\ Commit(h)
           /\ \E r \in add_node_returns(Heap, node) :
                  last' = Call("add_node", node, h.err, r)
           /\ UNCHANGED rest

remove_node ==
    \E node \in NODES :
        \E h \in {Part_remove_node(Heap, node)} :
           /\ Commit(h)
           /\ last' = Call("remove_node", node, h.err, None)
           /\ UNCHANGED rest

\* add_nodes returns the list of what add_node returned for each node.
RECURSIVE add_nodes_returns(_, _)
add_nodes_returns(h, ns) ==
    IF ns = <<>> THEN {<<>>}
    ELSE {<<r>> \o t : r \in add_node_returns(h, Head(ns)),
                       t \in add_nodes_returns(Part_add_node(h, Head(ns)), Tail(ns))}

NodeLists == {<<a, b>> : a, b \in NODES}

add_nodes ==
    \E ns \in NodeLists :
        \E h \in {Part_add_nodes(Heap, ns)} :
           /\ Commit(h)
           /\ \E r \in add_nodes_returns(Heap, ns) :
                  last' = Call("add_nodes", ns, h.err, r)
           /\ UNCHANGED rest

\* The arguments the queries are called with: the positions of the nodes of
\* the pool, the search radii, no plane or the plane through the first node,
\* the keys, and the numbers of nodes asked for, from zero to one more than
\* there can be.
POINTS == {xyz(n) : n \in NODES}

DISTANCES == 1..MaxDistance

PLANES == {None, 0}

KEYS == {None} \cup 0..NumNodes

NUMBERS == 0..(NumNodes + 1)

find_node_by_key ==
    \E key \in KEYS :
        \E r \in Part_find_node_by_key(Heap, key) :
           /\ Commit(r.heap)
           /\ last' = Call("find_node_by_key", key, r.heap.err, r.ret)
           /\ UNCHANGED rest

find_nodes_on_plane ==
    \E plane \in PLANES \ {None} :
        \E r \in Part_find_nodes_on_plane(Heap, plane, 1) :
           /\ Commit(r.heap)
           /\ last' = Call("find_nodes_on_plane", plane, r.heap.err, r.ret)
           /\ UNCHANGED rest

find_nodes_around_point_query ==
    \E point \in POINTS, distance \in DISTANCES, plane \in PLANES,
       report \in BOOLEAN, single \in BOOLEAN :
        \E r \in Part_find_nodes_around_point(Heap, point, distance, plane, report, single) :
           /\ Commit(r.heap)
           /\ last' = Call("find_nodes_around_point",
                            <<point, distance, plane, report, single>>, r.heap.err, r.ret)
           /\ UNCHANGED rest

find_nodes_around_node ==
    \E node \in NODES, distance \in DISTANCES, plane \in PLANES,
       report \in BOOLEAN, single \in BOOLEAN :
        \E r \in Part_find_nodes_around_node(Heap, node, distance, plane, report, single) :
           /\ Commit(r.heap)
           /\ last' = Call("find_nodes_around_node",
                            <<node, distance, plane, report, single>>, r.heap.err, r.ret)
           /\ UNCHANGED rest

find_closest_nodes_to_point ==
    \E point \in POINTS, number_of_nodes \in NUMBERS, report \in BOOLEAN :
        \E r \in Part_find_closest_nodes_to_point(Heap, point, number_of_nodes, report) :
           /\ Commit(r.heap)
           /\ last' = Call("find_closest_nodes_to_point",
                            <<point, number_of_nodes, report>>, r.heap.err, r.ret)
           /\ UNCHANGED rest

find_closest_nodes_to_node ==
    \E node \in NODES, number_of_nodes \in NUMBERS, report \in BOOLEAN :
        \E r \in Part_find_closest_nodes_to_node(Heap, node, number_of_nodes, report) :
           /\ Commit(r.heap)
           /\ last' = Call("find_closest_nodes_to_node",
                            <<node, number_of_nodes, report>>, r.heap.err, r.ret)
           /\ UNCHANGED rest

add_material ==
    \E material \in MATERIALS \cup {NoSection} :
        \E h \in {Part_add_material(Heap, material)} :
           /\ Commit(h)
           /\ last' = Call("add_material", material, h.err, material)
           /\ UNCHANGED rest

add_section ==
    \E section \in SECTIONS \cup {NoSection} :
        \E h \in {Part_add_section(Heap, section)} :
           /\ Commit(h)
           /\ last' = Call("add_section", section, h.err, section)
           /\ UNCHANGED rest

add_element ==
    \E element \in ELEMENTS, checks \in BOOLEAN :
        \E h \in {Part_add_element(Heap, element, checks)} :
           /\ Commit(h)
           /\ last' = Call("add_element", <<element, checks>>, h.err, element)
           /\ UNCHANGED rest

ElementLists == {<<a, b>> : a, b \in ELEMENTS}

add_elements ==
    \E es \in ElementLists :
        \E h \in {Part_add_elements(Heap, es)} :
           /\ Commit(h)
           /\ last' = Call("add_elements", es, h.err, es)
           /\ UNCHANGED rest

\* The calls on a part that is a RigidPart.
rigid_add_element ==
    \E element \in ELEMENTS :
        \E h \in {RigidPart_add_element(Heap, element)} :
           /\ Commit(h)
           /\ last' = Call("RigidPart.add_element", element, h.err, element)
           /\ UNCHANGED rest

rigid_add_elements ==
    \E es \in ElementLists :
        \E h \in {RigidPart_add_elements(Heap, es)} :
           /\ Commit(h)
           /\ last' = Call("RigidPart.add_elements", es, h.err, es)
           /\ UNCHANGED rest

rigid_add_group ==
    \E group \in GROUPS \cup {NotAGroup} :
        \E order \in Orders(group.members) :
            \E h \in {RigidPart_add_group(Heap, group, order)} :
               /\ Commit(h)
               /\ last' = Call("RigidPart.add_group", group, h.err, group)
               /\ UNCHANGED rest

\* The calls on the second part.
other_add_node ==
    \E node \in NODES :
        \E h \in {Part_add_node(OtherHeap, node)} :
           /\ CommitOther(h)
           /\ \E r \in add_node_returns(OtherHeap, node) :
                  last' = Call("other.add_node", node, h.err, r)
           /\ UNCHANGED <<config, base, problem, jobdata>>

other_remove_node ==
    \E node \in NODES :
        \E h \in {Part_remove_node(OtherHeap, node)} :
           /\ CommitOther(h)
           /\ last' = Call("other.remove_node", node, h.err, None)
           /\ UNCHANGED <<config, base, problem, jobdata>>

other_add_element ==
    \E element \in ELEMENTS, checks \in BOOLEAN :
        \E h \in {Part_add_element(OtherHeap, element, checks)} :
           /\ CommitOther(h)
           /\ last' = Call("other.add_element", <<element, checks>>, h.err, element)
           /\ UNCHANGED <<config, base, problem, jobdata>>

remove_element ==
    \E element \in ELEMENTS :
        \E h \in {Part_remove_element(Heap, element)} :
           /\ Commit(h)
           /\ last' = Call("remove_element", element, h.err, None)
           /\ UNCHANGED rest

add_group ==
    \E group \in GROUPS \cup {NotAGroup} :
        \E order \in Orders(group.members) :
            \E h \in {Part_add_group(Heap, group, order)} :
               /\ Commit(h)
               /\ last' = Call("add_group", group, h.err, group)
               /\ UNCHANGED rest

\* What a call of add_group leaves: how it ended, and the groups, the nodes
\* and the elements of the part after it.
Grouped(h) ==
    [err |-> h.err, nodesgroups |-> h.nodesgroups,
     elementsgroups |-> h.elementsgroups, nodes |-> h.nodes,
     elements |-> h.elements]

\* add_group called twice in a row with the same group, nothing in between;
\* the members are visited in the same order both times.
add_group_twice ==
    \E group \in GROUPS :
        \E order \in Orders(group.members) :
            \E h1 \in {Part_add_group(Heap, group, order)} :
                \E h2 \in {Part_add_group([h1 EXCEPT !.err = "none"], group, order)} :
                   /\ Commit(h2)
                   /\ last' = Call("add_group twice", group, h2.err,
                                    <<Grouped(h1), Grouped(h2)>>)
                   /\ UNCHANGED rest

add_beam_release ==
    \E element \in ELEMENTS, location \in {"start", "end", "middle"},
       release \in RELEASES \cup {NoSection} :
        \E h \in {Part_add_beam_release(Heap, element, location, release)} :
           /\ Commit(h)
           /\ last' = Call("add_beam_release", <<element, location, release>>, h.err, release)
           /\ UNCHANGED rest

assign_keys ==
    \E start \in {0, 1} :
        \E nk \in Numberings(nodes, start), ek \in Numberings(elements, start) :
            /\ Commit(Part_assign_keys(Heap, nk, ek))
            /\ last' = Call("assign_keys", start, "none", None)
            /\ UNCHANGED rest

generate_jobdata ==
    \E group_error \in group_elements_errors(Heap) :
        \E bucket_order \in Orders(DOMAIN group_elements(Heap)) :
            \E r \in {AbaqusPart_generate_jobdata(Heap, group_error, bucket_order)} :
               /\ Commit(r.heap)
               /\ last' = Call("_generate_jobdata", None, r.heap.err, r.text)
               /\ UNCHANGED rest

\* The orders in which the loop over self.nodes can meet the nodes.  A set
\* that was not modified is iterated in the same order again, the order in
\* which assign_keys numbered the nodes; once a node was taken out of the set
\* (the last call removed a node that had a key) the order is any.
IterationOrders ==
    IF last.op = "remove_node" /\ last.arg \notin nodes /\ node_key[last.arg] # None
    THEN Orders(nodes)
    ELSE {q \in Orders(nodes) :
             \A i \in 1..Len(q), j \in 1..Len(q) :
                 i < j => node_key[q[i]] <= node_key[q[j]]}

\* part_data, the list _generate_jobdata joins: '*Node', the line of every
\* node as the loop meets them, then for every bucket, in the order the
\* buckets are visited, its '*Element' block.
AbaqusPart_part_data(h, r, node_order, bucket_order) ==
    IF r.heap.err # "none" THEN <<>>
    ELSE <<[kind |-> "*Node"]>>
         \o [i \in 1..Len(node_order) |->
                [kind |-> "node", key |-> NodeLine(h, node_order[i]).node,
                 of |-> node_order[i]]]
         \o [i \in 1..Len(bucket_order) |->
                [kind |-> "*Element",
                 block |-> CHOOSE b \in r.text.blocks :
                               <<b.eltype, b.section, b.orientation>> = bucket_order[i]]]

\* _generate_jobdata, with the list of the lines it returns.
generate_part_data ==
    \E group_error \in group_elements_errors(Heap) :
        \E bucket_order \in Orders(DOMAIN group_elements(Heap)) :
            \E node_order \in IterationOrders :
                \E r \in {AbaqusPart_generate_jobdata(Heap, group_error, bucket_order)} :
                   /\ Commit(r.heap)
                   /\ last' = Call("_generate_jobdata part_data", None, r.heap.err,
                                    AbaqusPart_part_data(Heap, r, node_order, bucket_order))
                   /\ UNCHANGED rest

\* The orientation keys two beams of a part can have: no key, and the joined
\* components of a frame as str() prints them (1.0 for a float, 10 for an int).
ORIENTATIONS ==
    {NoOrientation, <<"1.0", "0.0", "0.0">>, <<"10", "0.0", "0.0">>,
     <<"0.0", "0.0", "-1.0">>}

\* The buckets a part can have: (element type, section, orientation key).
BUCKETS == {"B31", "T3D2", "S3"} \X SECTIONS \X ORIENTATIONS

\* What one call of _generate_jobdata leaves: how it ended, the text and the
\* groups of the part after it.
Serialized(r) == [err |-> r.heap.err, text |-> r.text, groups |-> Groups(r.heap)]

\* _generate_jobdata called twice in a row on the part, nothing in between:
\* the elements are the same for both calls, and so are the outcome of the
\* grouping and the order of the buckets (the iteration order of equal sets
\* and dictionaries built the same way in one process).
generate_jobdata_twice ==
    \E group_error \in group_elements_errors(Heap) :
        \E bucket_order \in Orders(DOMAIN group_elements(Heap)) :
            \E r1 \in {AbaqusPart_generate_jobdata(Heap, group_error, bucket_order)} :
                \E r2 \in {AbaqusPart_generate_jobdata([r1.heap EXCEPT !.err = "none"],
                                                         group_error, bucket_order)} :
                   /\ Commit(r2.heap)
                   /\ last' = Call("_generate_jobdata twice", None, r2.heap.err,
                                    <<Serialized(r1), Serialized(r2)>>)
                   /\ UNCHANGED rest

\* The names _generate_jobdata gives to the auxiliary sets of two buckets of
\* one part.
aux_elset ==
    \E k1 \in BUCKETS, k2 \in BUCKETS :
        /\ last' = Call("aux_elset", <<k1, k2>>, "none", <<AuxName(k1), AuxName(k2)>>)
        /\ UNCHANGED <<part, rest>>

AbaqusPart_group_elements ==
    \E error \in group_elements_errors(Heap) :
        /\ last' = Call("_group_elements", None, error,
                        IF error = "none" THEN group_elements(Heap) ELSE <<>>)
        /\ UNCHANGED <<part, rest>>

\* The node lists of a point load: two different nodes.
LoadNodeLists == {ns \in NodeLists : ns[1] < ns[2]}

PointLoad_generate_jobdata ==
    \E ns \in LoadNodeLists :
        \E r \in {AbaqusPointLoad_generate_jobdata(Heap, ns)} :
           /\ last' = Call("AbaqusPointLoad._generate_jobdata", ns, r.err, r.text)
           /\ UNCHANGED <<part, rest>>

\* ---------------------------------------------------------- PartBase: calls
MaxBaseNodes == 3
MaxBaseElements == 2

base_add_node ==
    \E node \in NODES, check \in BOOLEAN :
        /\ Len(base.nodes_gkeys) < MaxBaseNodes
        /\ base' = PartBase_add_node(base, node, check)
        /\ last' = Call("PartBase.add_node", <<node, check>>, "none", None)
        /\ UNCHANGED <<part, config, other, problem, jobdata>>

base_remove_node ==
    \E key \in 0..(NumNodes - 1) :
        \E b \in {PartBase_remove_node(base, key)} :
           /\ base' = [b EXCEPT !.err = "none"]
           /\ last' = Call("PartBase.remove_node", key, b.err, None)
           /\ UNCHANGED <<part, config, other, problem, jobdata>>

base_add_element ==
    \E element \in ELEMENTS, check \in BOOLEAN :
        /\ Len(base.elements) < MaxBaseElements
        /\ \E b \in {PartBase_add_element(base, element, check)} :
              /\ base' = [b EXCEPT !.err = "none"]
              /\ last' = Call("PartBase.add_element", <<element, check>>, b.err, None)
              /\ UNCHANGED <<part, config, other, problem, jobdata>>

base_add_material ==
    \E material \in MATERIALS :
        /\ base' = PartBase_add_material(base, material)
        /\ last' = Call("PartBase.add_material", material, "none", None)
        /\ UNCHANGED <<part, config, other, problem, jobdata>>

base_add_section ==
    \E section \in SECTIONS :
        \E b \in {PartBase_add_section(base, section)} :
           /\ base' = [b EXCEPT !.err = "none"]
           /\ last' = Call("PartBase.add_section", section, b.err, None)
           /\ UNCHANGED <<part, config, other, problem, jobdata>>

\* ---------------------------------------------------------- InputFile: call
\* InputFile.__init__: the job data is generated from the problem and kept.
InputFile ==
    \E r \in {InputFile_generate_jobdata(problem)} :
       /\ jobdata' = IF r.err = "none" THEN r.text ELSE jobdata
       /\ last' = Call("InputFile", None, r.err, None)
       /\ UNCHANGED <<part, config, other, base, problem>>

Init ==
    /\ VERBOSE \in BOOLEAN
    /\ POINT_OVERLAP \in BOOLEAN
    /\ Is(NewPart)
    /\ other = OtherPart
    /\ base = PartBase
    /\ problem = NoProblem
    /\ jobdata = NoText
    /\ last = Call("init", None, "none", None)

\* The registry of a _Part: nodes and elements.
Next ==
    \/ add_node
    \/ remove_node
    \/ add_element
    \/ remove_element

Spec == Init /\ [][Next]_vars

\* Nodes only.
NextNodes ==
    \/ add_node
    \/ add_nodes
    \/ remove_node

SpecNodes == Init /\ [][NextNodes]_vars

\* Materials, sections, groups and releases.
NextMembers ==
    \/ add_material
    \/ add_section
    \/ add_group
    \/ add_beam_release

SpecMembers == Init /\ [][NextMembers]_vars

\* The calls that take lists.
NextLists ==
    \/ add_nodes
    \/ add_elements

SpecLists == Init /\ [][NextLists]_vars

\* A part is built, its keys are assigned and it is serialized.
NextSerial ==
    \/ add_node
    \/ add_element
    \/ assign_keys
    \/ AbaqusPart_group_elements
    \/ generate_jobdata
    \/ PointLoad_generate_jobdata

SpecSerial == Init /\ [][NextSerial]_vars

\* A part is built, keyed and serialised twice in a row.
NextReserial ==
    \/ add_node
    \/ add_element
    \/ assign_keys
    \/ generate_jobdata_twice

SpecReserial == Init /\ [][NextReserial]_vars

\* Nodes are added to a part and groups of nodes and of elements after them.
NextGroups ==
    \/ add_node
    \/ add_group
    \/ add_group_twice

SpecGroups == Init /\ [][NextGroups]_vars

\* Nodes are added, removed and looked up.
NextQueries ==
    \/ add_node
    \/ remove_node
    \/ find_node_by_key
    \/ find_nodes_on_plane
    \/ find_nodes_around_point_query
    \/ find_nodes_around_node
    \/ find_closest_nodes_to_point
    \/ find_closest_nodes_to_node

SpecQueries == Init /\ [][NextQueries]_vars

\* Nodes are added and removed, keys assigned, and the part serialised line
\* by line.
NextOrder ==
    \/ add_node
    \/ remove_node
    \/ assign_keys
    \/ generate_part_data

SpecOrder == Init /\ [][NextOrder]_vars

\* The part is a RigidPart: elements and groups are added to it.
NextRigid ==
    \/ rigid_add_element
    \/ rigid_add_elements
    \/ rigid_add_group

SpecRigid == Init /\ [][NextRigid]_vars

\* The auxiliary sets of the buckets of a part are named.
NextAux == aux_elset

SpecAux == Init /\ [][NextAux]_vars

\* The list based part of the first generation.
NextBase ==
    \/ base_add_node
    \/ base_remove_node
    \/ base_add_element

\* PartBase reads neither flag.
InitBase == Init /\ ~VERBOSE /\ ~POINT_OVERLAP

SpecBase == InitBase /\ [][NextBase]_vars

\* Elements alone are added and removed; add_element adds their nodes.
NextElements ==
    \/ add_element
    \/ remove_element

SpecElements == Init /\ [][NextElements]_vars

\* Two parts take and drop the same node objects; the second part also takes
\* elements, whose nodes it adds.
NextParts ==
    \/ add_node
    \/ remove_node
    \/ other_add_node
    \/ other_remove_node
    \/ other_add_element

SpecParts == InitBase /\ [][NextParts]_vars

\* Materials and sections are added to a part of either generation, and
\* elements to the part of the new one.
NextMaterials ==
    \/ add_material
    \/ add_section
    \/ add_element
    \/ base_add_material
    \/ base_add_section

SpecMaterials == InitBase /\ [][NextMaterials]_vars

\* An input file is generated from any problem.
InitJob ==
    /\ VERBOSE \in BOOLEAN
    /\ POINT_OVERLAP \in BOOLEAN
    /\ Is(NewPart)
    /\ other = OtherPart
    /\ base = PartBase
    /\ problem \in Problems
    /\ jobdata = NoText
    /\ last = Call("init", None, "none", None)

NextJob == InputFile

SpecJob == InitJob /\ [][NextJob]_vars

\* ============================================================ properties
\* C1 (specification SpecNodes).  After any sequence of add_node and remove_node
\* calls the keys of the registered nodes are exactly 0 .. count-1.
C1_KeyDensity ==
    {node_key[n] : n \in nodes} = 0..(Cardinality(nodes) - 1)

\* C2 (specification SpecBase).  remove_node on a key of the part completes
\* without error, takes that node out of the list and leaves the remaining
\* nodes with the keys 0 .. n-2 in their order.
C2_RemoveNodeRenumbers ==
    [][(last'.op = "PartBase.remove_node" /\ last'.arg < Len(base.nodes)) =>
          /\ last'.err = "none"
          /\ base'.nodes = Del(base.nodes, last'.arg)
          /\ \A i \in 1..Len(base'.nodes) : base'.node_key[base'.nodes[i]] = i - 1]_vars

\* The registered nodes closer to node p than the tolerance.
C3_Near(p) ==
    {n \in nodes : X(n) - X(p) < GLOBAL_TOLERANCE /\ X(p) - X(n) < GLOBAL_TOLERANCE}

C4_UnregisteredNodeRejected ==
    [][(/\ last'.op = "add_element" /\ last'.arg[2]
        /\ last'.arg[1] \notin elements
        /\ \E n \in Range(ElementNodes(last'.arg[1])) : n \notin nodes) =>
          /\ last'.err # "none"
          /\ elements' = elements /\ sections' = sections /\ materials' = materials]_vars

\* C5 (specification Spec).  A call that raises leaves the collections, the
\* keys, the index and the back-sets of the part as they were.
C5_AtomicOnFailure ==
    [][last'.err # "none" => UNCHANGED part]_vars

\* The (element type, section, orientation key) of an element.
C6_Bucket(e) ==
    <<eltype(e), ElementSection(e),
      IF ElementClass(e) = "beam" THEN OrientationStrs(e) ELSE NoOrientation>>

\* C6 (specification SpecSerial).  _group_elements completes without error
\* and every element of the part is in exactly one bucket, its own.
C6_GroupingTotal ==
    last.op = "_group_elements" =>
        /\ last.err = "none"
        /\ \A e \in elements :
               {k \in DOMAIN last.ret : e \in last.ret[k]} = {C6_Bucket(e)}

\* C7 (specification SpecSerial).  The job data of a part with N nodes and M
\* elements in K buckets has N node lines, K element blocks and M element
\* lines.
C7_BlockCounts ==
    last.op = "_generate_jobdata" =>
        /\ last.err = "none"
        /\ Cardinality(last.ret.node_lines) = Cardinality(nodes)
        /\ Cardinality(last.ret.blocks) = Cardinality({C6_Bucket(e) : e \in elements})
        /\ \A e \in elements :
               Cardinality({b \in last.ret.blocks : \E l \in b.lines : l.of = e}) = 1
        /\ \A b \in last.ret.blocks : \A l \in b.lines : l.of \in elements

\* The indices of the lines of a node set, one after the other.
RECURSIVE C8_Flatten(_)
C8_Flatten(lines) ==
    IF lines = <<>> THEN <<>> ELSE Head(lines) \o C8_Flatten(Tail(lines))

C9_Sections ==
    <<"Heading", "PARTS", "ASSEMBLY", "MATERIALS", "INTERACTION PROPERTIES",
      "INTERACTIONS", "BOUNDARY", "STEPS">>

C9_IsHeader(x) == x.kind = "header"

C10_SerializerReadOnly ==
    [][last'.op = "_generate_jobdata" =>
          UNCHANGED <<nodes, elements, sections, materials, nodesgroups,
                      elementsgroups, releases, node_key, element_key>>]_vars

\* C11 (specification SpecAux).  Two different (type, section, orientation)
\* buckets of a part never get the same auxiliary set name.
C11_AuxNamesUnique ==
    (last.op = "aux_elset" /\ last.arg[1] # last.arg[2]) => last.ret[1] # last.ret[2]

C13_Names == {Material_name(m) : m \in materials}

C13_BaseNames == {i[1] : i \in base.materials}

C15_MaterialNamesUnique ==
    /\ \A m1 \in materials, m2 \in materials :
           Material_name(m1) = Material_name(m2) => m1 = m2
    /\ \A i1 \in base.materials, i2 \in base.materials : i1[1] = i2[1] => i1 = i2

\* C16 (specification SpecGroups).  After add_group returned for a group of
\* nodes or of elements, every member of the group is registered in the part.
C16_MembersRegistered ==
    (last.op = "add_group" /\ last.err = "none") =>
        IF last.arg.class = "NodesGroup" THEN last.arg.members \subseteq nodes
        ELSE last.arg.members \subseteq elements

\* C17 (specification SpecGroups).  add_group of a group the part already
\* contains is skipped: the second of two calls in a row returns without
\* error and leaves the groups, the nodes and the elements as the first call
\* left them.
C17_AddGroupIdempotent ==
    (last.op = "add_group twice" /\ last.ret[1].err = "none") =>
        last.ret[2] = last.ret[1]

\* A group was added twice to a part that had one node: it is in the part,
\* and the second call ended without error.
C17_Witness ==
    /\ last.op = "add_group twice"
    /\ last.ret[1].err = "none"
    /\ last.ret[2].err = "none"
    /\ last.arg \in nodesgroups \cup elementsgroups
    /\ nodes # {}

\* The queries, by the name of the call.
C18_Queries ==
    {"find_node_by_key", "find_nodes_around_point", "find_nodes_around_node",
     "find_nodes_on_plane", "find_closest_nodes_to_point",
     "find_closest_nodes_to_node"}

\* C18 (specification SpecQueries).  A query leaves the nodes, the keys, the
\* geometric key index, the elements, the groups and every other collection
\* of the part as they were, whatever its arguments and however it ends.
C18_QueriesReadOnly ==
    [][last'.op \in C18_Queries => UNCHANGED part]_vars

\* A query that ended with an error on a part with two nodes.
C18_Witness ==
    /\ last.op = "find_nodes_around_node"
    /\ last.err = "TypeError"
    /\ Cardinality(nodes) = 2

\* C19 (specification SpecQueries).  find_closest_nodes_to_point fails for
\* every number of nodes outside 1..nodes_count and returns exactly that many
\* nodes of the part for every number inside.
C19_CountValidated ==
    last.op = "find_closest_nodes_to_point" =>
        IF last.arg[2] \in 1..Part_nodes_count(Heap)
        THEN /\ last.err = "none"
             /\ IF last.arg[3]
                THEN /\ DOMAIN last.ret \subseteq nodes
                     /\ Cardinality(DOMAIN last.ret) = last.arg[2]
                ELSE /\ Range(last.ret) \subseteq nodes
                     /\ Len(last.ret) = last.arg[2]
                     /\ Cardinality(Range(last.ret)) = last.arg[2]
        ELSE last.err # "none"

\* The registered nodes strictly closer than the radius to the point of the
\* last search.
C20_Within ==
    {n \in nodes : Abs(X(n) - last.arg[1][1]) < last.arg[2]}

\* C20 (specification SpecQueries).  find_nodes_around_point without plane
\* and without single returns exactly the registered nodes strictly closer
\* than the radius to the point: as the list without report, as the keys of
\* the dictionary, each with its distance, with report.
C20_StrictlyWithinRadius ==
    (/\ last.op = "find_nodes_around_point"
     /\ last.arg[3] = None
     /\ ~last.arg[5])
    => IF last.arg[4]
       THEN /\ DOMAIN last.ret = C20_Within
            /\ \A n \in C20_Within : last.ret[n] = Abs(X(n) - last.arg[1][1])
       ELSE /\ Range(last.ret) = C20_Within
            /\ Len(last.ret) = Cardinality(C20_Within)

\* A search with report that returned a node while another registered node
\* lies at the radius itself.
C20_Witness ==
    /\ last.op = "find_nodes_around_point"
    /\ last.arg[3] = None
    /\ ~last.arg[5]
    /\ last.arg[4]
    /\ DOMAIN last.ret # {}
    /\ \E n \in nodes : Abs(X(n) - last.arg[1][1]) = last.arg[2]

\* C21 (specification SpecOrder).  Whenever the serialisation of a part
\* returns, it has emitted, first of all and as one block, the line of every
\* node of the part, in ascending order of the keys, and only then the
\* element blocks.
C21_NodesFirstAscending ==
    (last.op = "_generate_jobdata part_data" /\ last.err = "none") =>
        /\ Len(last.ret) >= 1 + Cardinality(nodes)
        /\ last.ret[1].kind = "*Node"
        /\ \A i \in 2..Len(last.ret) :
               last.ret[i].kind = (IF i <= 1 + Cardinality(nodes) THEN "node"
                                   ELSE "*Element")
        /\ {last.ret[i].of : i \in 2..(1 + Cardinality(nodes))} = nodes
        /\ \A i \in 2..(1 + Cardinality(nodes)), j \in 2..(1 + Cardinality(nodes)) :
               i < j => last.ret[i].key < last.ret[j].key

\* C22 (specification SpecRigid).  Adding an element that has no attribute
\* rigid, or has it false, to a RigidPart fails and leaves the part as it
\* was, and every element registered in a RigidPart is rigid.
C22_OnlyRigidElements ==
    [][/\ \A e \in elements' : HasRigid(e) /\ rigid(e)
       /\ (/\ last'.op = "RigidPart.add_element"
           /\ ~(HasRigid(last'.arg) /\ rigid(last'.arg)))
          => (last'.err = "TypeError" /\ UNCHANGED part)]_vars

\* A RigidPart holding a rigid element has just refused one that is not.
C22_Witness ==
    /\ last.op = "RigidPart.add_element"
    /\ last.err = "TypeError"
    /\ HasRigid(last.arg)
    /\ ~rigid(last.arg)
    /\ elements # {}

\* C23 (specification SpecParts).  A node is in the node set of at most one
\* part, and a node in the node set of a part has that part as its
\* registration.
C23_OnePartPerNode ==
    \A n \in NODES :
        /\ ~(n \in nodes /\ n \in other.nodes)
        /\ n \in nodes => node_registration[n] = "part"
        /\ n \in other.nodes => node_registration[n] = "other"

\* C24 (specification Spec).  nodes_count is the number of registered nodes
\* and elements_count the number of registered elements, 0 on an empty part.
C24_CountsAreSizes ==
    /\ Part_nodes_count(Heap) = Cardinality(nodes)
    /\ Part_elements_count(Heap) = Cardinality(elements)

\* C25 (specification SpecQueries).  find_nodes_around_point with single and
\* without report or plane returns the closest node, one registered node
\* within the distance than which no registered node is closer to the point,
\* when there is a registered node within the distance, and None otherwise.
C25_SingleIsClosest ==
    (/\ last.op = "find_nodes_around_point"
     /\ last.err = "none"
     /\ last.arg[3] = None
     /\ ~last.arg[4]
     /\ last.arg[5])
    => LET point == last.arg[1]
           near == find_nodes_around_point(Heap, point, last.arg[2])
       IN IF near = {} THEN last.ret = None
          ELSE /\ last.ret \in near
               /\ \A n \in nodes :
                      distance_point_point_sqrd(xyz(last.ret), point)
                          <= distance_point_point_sqrd(xyz(n), point)

\* C26 (specification SpecQueries).  The searches around a node leave the
\* node out: for a registered node, find_nodes_around_node (a list, no plane)
\* returns without error exactly the other registered nodes within the
\* distance, and find_closest_nodes_to_node, when it returns a list, returns
\* number_of_nodes nodes none of which is the node.
C26_NodeItselfExcluded ==
    /\ (/\ last.op = "find_nodes_around_node"
        /\ last.arg[1] \in nodes
        /\ last.arg[3] = None
        /\ ~last.arg[4]
        /\ ~last.arg[5])
       => /\ last.err = "none"
          /\ Range(last.ret)
               = find_nodes_around_point(Heap, xyz(last.arg[1]), last.arg[2]) \ {last.arg[1]}
    /\ (/\ last.op = "find_closest_nodes_to_node"
        /\ last.arg[1] \in nodes
        /\ last.err = "none"
        /\ ~last.arg[3])
       => /\ Len(last.ret) = last.arg[2]
          /\ last.arg[1] \notin Range(last.ret)

\* C27 (specification SpecElements).  After any sequence of add_element and
\* remove_element, connected_elements of every registered node is exactly the
\* set of the registered elements that reference the node.
C27_BackReferencesExact ==
    \A n \in nodes :
        connected_elements[n] = {e \in elements : n \in Range(ElementNodes(e))}

\* C28 (specification Spec).  In every state reached by add_node,
\* add_element, remove_node and remove_element, every registered element
\* references only nodes registered in the part.
C28_ElementNodesRegistered ==
    \A e \in elements : Range(ElementNodes(e)) \subseteq nodes

\* C29 (specification SpecNodes).  After any sequence of add_node and
\* remove_node the index of geometric keys is consistent: the geometric key
\* of every registered node has an entry, and every entry gives a registered
\* node that has that geometric key.
C29_GkeyIndexConsistent ==
    /\ \A n \in nodes : gkey(n) \in DOMAIN gkey_node
    /\ \A k \in DOMAIN gkey_node :
           /\ gkey_node[k] \in nodes
           /\ gkey(gkey_node[k]) = k

\* What a call leaves of the part and its objects, the flag it ran under
\* left out.
C30_Left(h) == [h EXCEPT !.VERBOSE = FALSE]

\* C30 (specification Spec).  VERBOSE only controls logging: from every state
\* the part can be in, each call of add_node, add_element, remove_node and
\* remove_element leaves the same part and returns the same value with
\* VERBOSE on as with VERBOSE off, so that two runs of one sequence of calls
\* that differ only in the flag end in the same state.
C30_VerboseOnlyLogs ==
    \A verbose \in BOOLEAN :
        /\ \A n \in NODES :
              /\ C30_Left(Part_add_node([Heap EXCEPT !.VERBOSE = verbose], n))
                   = C30_Left(Part_add_node(Heap, n))
              /\ add_node_returns([Heap EXCEPT !.VERBOSE = verbose], n)
                   = add_node_returns(Heap, n)
              /\ C30_Left(Part_remove_node([Heap EXCEPT !.VERBOSE = verbose], n))
                   = C30_Left(Part_remove_node(Heap, n))
        /\ \A e \in ELEMENTS :
              /\ \A checks \in BOOLEAN :
                    C30_Left(Part_add_element([Heap EXCEPT !.VERBOSE = verbose], e, checks))
                      = C30_Left(Part_add_element(Heap, e, checks))
              /\ C30_Left(Part_remove_element([Heap EXCEPT !.VERBOSE = verbose], e))
                   = C30_Left(Part_remove_element(Heap, e))

====
